---- MODULE Spec2Model ----
(***************************************************************************)
(* Shamir's (k,n)-threshold secret sharing as implemented by class Shamir  *)
(* of secretsharing.py, over the finite fields galois.GF(order) builds.    *)
(* Field elements are the integers 0..order-1 (galois' integer             *)
(* representation); the state records the last call made on a scheme.      *)
(***************************************************************************)
EXTENDS Integers, Sequences, FiniteSets

VARIABLES order, op, k, n, secret, coeffs, shares, shareErr,
          secret2, coeffs2, shares2, pool, scalar, revealed, revealErr

vars == <<order, op, k, n, secret, coeffs, shares, shareErr,
          secret2, coeffs2, shares2, pool, scalar, revealed, revealErr>>

(***************************************************************************)
(* Bounds of the model.                                                    *)
(***************************************************************************)
\* largest threshold k and share count n passed to share
MaxN == 3
\* longest list of arbitrary pairs passed to reveal
MaxLen == 3

\* field orders the schemes are constructed with: primes and powers of two
Orders == {2, 3, 4, 5, 7, 8}
\* orders of the schemes whose callers combine shares or pass arbitrary lists
SmallOrders == {2, 3, 4, 5}

\* what is recorded for the value of a call that raised
None == 0 - 1

(***************************************************************************)
(* The finite field GF(order) of galois: prime fields are the integers     *)
(* modulo the order; the fields of order 2^e are polynomials over GF(2)    *)
(* modulo galois' default (Conway) irreducible polynomial.                 *)
(***************************************************************************)
Characteristic(o) == IF o \in {2, 4, 8} THEN 2 ELSE o

\* x + 1, x^2 + x + 1, x^3 + x + 1 as bit vectors
IrreduciblePoly(o) == CASE o = 2 -> 3 [] o = 4 -> 7 [] o = 8 -> 11

Elements(o) == 0 .. (o - 1)

RECURSIVE Xor(_, _)
Xor(a, b) ==
    IF a = 0 THEN b
    ELSE IF b = 0 THEN a
    ELSE ((a + b) % 2) + 2 * Xor(a \div 2, b \div 2)

\* multiplication by the indeterminate, reduced by the irreducible polynomial
Xtime(o, a) == IF 2 * a >= o THEN Xor(2 * a, IrreduciblePoly(o)) ELSE 2 * a

RECURSIVE GF2Mul(_, _, _)
GF2Mul(o, a, b) ==
    IF b = 0 THEN 0
    ELSE Xor(IF b % 2 = 1 THEN a ELSE 0, GF2Mul(o, Xtime(o, a), b \div 2))

Add(o, a, b) == IF Characteristic(o) = 2 THEN Xor(a, b) ELSE (a + b) % o

Sub(o, a, b) == IF Characteristic(o) = 2 THEN Xor(a, b) ELSE (a - b + o) % o

Mul(o, a, b) == IF Characteristic(o) = 2 THEN GF2Mul(o, a, b) ELSE (a * b) % o

\* the multiplicative inverse of b # 0
Inv(o, b) == CHOOSE c \in Elements(o) : Mul(o, b, c) = 1

\* a / b for b # 0 (galois raises ZeroDivisionError for b = 0, see reveal)
Div(o, a, b) == Mul(o, a, Inv(o, b))

\* int * FieldArray: galois reduces the integer modulo the characteristic and
\* multiplies (scalar multiplication, i.e. repeated addition)
ScalarMul(o, i, v) == Mul(o, i % Characteristic(o), v)

\* Python's integer power x ** e
RECURSIVE IntPow(_, _)
IntPow(x, e) == IF e = 0 THEN 1 ELSE x * IntPow(x, e - 1)

(***************************************************************************)
(* Shamir.__poly: y = sum over index of x ** index * coeffs[::-1][index],  *)
(* with x the Python integer of range(1, n + 1).                           *)
(***************************************************************************)
RECURSIVE PolySum(_, _, _, _)
PolySum(o, x, cs, index) ==
    IF index = Len(cs) THEN 0
    ELSE Add(o, ScalarMul(o, IntPow(x, index), cs[Len(cs) - index]),
                PolySum(o, x, cs, index + 1))

poly(o, x, cs) == PolySum(o, x, cs, 0)

(***************************************************************************)
(* Shamir.share.  rand is the array GF.Random(k) returns.  The result is   *)
(* the exception raised ("none" when the call returns) and the list.       *)
(***************************************************************************)
\* coeffs after coeffs[k - 1] = GF(secret)
Coeffs(kk, s, rand) == [i \in 1 .. kk |-> IF i = kk THEN s ELSE rand[i]]

\* range(1, n) in place of range(1, n + 1)
ShareListShort(o, nn, cs) == [x \in 1 .. (nn - 1) |-> <<x, poly(o, x, cs)>>]

ShareList(o, nn, cs) == [x \in 1 .. nn |-> <<x, poly(o, x, cs)>>]

share(o, kk, nn, s, rand) ==
    IF kk < 0 THEN [err |-> "ValueError", coeffs |-> <<>>, shares |-> <<>>]
    ELSE IF s \notin Elements(o)
         THEN [err |-> "ValueError", coeffs |-> <<>>, shares |-> <<>>]
    ELSE IF kk = 0 THEN [err |-> "IndexError", coeffs |-> <<>>, shares |-> <<>>]
    ELSE [err |-> "none", coeffs |-> Coeffs(kk, s, rand),
          shares |-> ShareList(o, nn, Coeffs(kk, s, rand))]

(***************************************************************************)
(* Shamir.reveal.                                                          *)
(***************************************************************************)
Xs(sh) == [i \in 1 .. Len(sh) |-> sh[i][1]]
Ys(sh) == [i \in 1 .. Len(sh) |-> sh[i][2]]

\* product over all xi (the precomputed numerator)
RECURSIVE ProductUpTo(_, _, _)
ProductUpTo(o, x, m) ==
    IF m = 0 THEN 1 ELSE Mul(o, ProductUpTo(o, x, m - 1), x[m])

Product(o, x) == ProductUpTo(o, x, Len(x))

\* product over j # i of (x[i] - x[j])
RECURSIVE DenominatorUpTo(_, _, _, _)
DenominatorUpTo(o, x, i, m) ==
    IF m = 0 THEN 1
    ELSE IF m = i THEN DenominatorUpTo(o, x, i, m - 1)
    ELSE Mul(o, DenominatorUpTo(o, x, i, m - 1), Sub(o, x[i], x[m]))

\* the loop skipping every j with x[j] = x[i] in place of j = i
RECURSIVE DenominatorSkipEqualUpTo(_, _, _, _)
DenominatorSkipEqualUpTo(o, x, i, m) ==
    IF m = 0 THEN 1
    ELSE IF x[m] = x[i] THEN DenominatorSkipEqualUpTo(o, x, i, m - 1)
    ELSE Mul(o, DenominatorSkipEqualUpTo(o, x, i, m - 1), Sub(o, x[i], x[m]))

DenominatorSkipEqual(o, x, i) == DenominatorSkipEqualUpTo(o, x, i, Len(x))

\* the loop without its "if i == j: continue"
RECURSIVE DenominatorNoSkipUpTo(_, _, _, _)
DenominatorNoSkipUpTo(o, x, i, m) ==
    IF m = 0 THEN 1
    ELSE Mul(o, DenominatorNoSkipUpTo(o, x, i, m - 1), Sub(o, x[i], x[m]))

DenominatorNoSkip(o, x, i) == DenominatorNoSkipUpTo(o, x, i, Len(x))

Denominator(o, x, i) == DenominatorUpTo(o, x, i, Len(x))

\* the numerator reveal uses for basis i: product / x[i]
Numerator(o, x, i) == Div(o, Product(o, x), x[i])

\* li = (product / x[i]) / denominator
Li(o, x, i) == Div(o, Numerator(o, x, i), Denominator(o, x, i))

\* a division of the i-th round raises ZeroDivisionError
DivisionFails(o, x, i) == x[i] = 0 \/ Denominator(o, x, i) = 0

RECURSIVE SumsUpTo(_, _, _, _)
SumsUpTo(o, x, y, m) ==
    IF m = 0 THEN 0
    ELSE Add(o, SumsUpTo(o, x, y, m - 1), Mul(o, y[m], Li(o, x, m)))

\* GF(shares) accepts the list: every entry is an element of the field
InField(o, sh) ==
    \A i \in 1 .. Len(sh) : sh[i][1] \in Elements(o) /\ sh[i][2] \in Elements(o)

reveal(o, sh) ==
    IF ~InField(o, sh) THEN [err |-> "ValueError", value |-> None]
    ELSE IF Len(sh) = 0 THEN [err |-> "ValueError", value |-> None]
    ELSE IF \E i \in 1 .. Len(sh) : DivisionFails(o, Xs(sh), i)
         THEN [err |-> "ZeroDivisionError", value |-> None]
    ELSE [err |-> "none", value |-> SumsUpTo(o, Xs(sh), Ys(sh), Len(sh))]

(***************************************************************************)
(* The calls.                                                              *)
(***************************************************************************)
KInputs == -1 .. MaxN
NInputs == 0 .. MaxN
SecretInputs(o) == -1 .. o
RandomDraws(o, kk) == IF kk < 1 THEN {<<>>} ELSE [1 .. kk -> Elements(o)]

\* the ascending sub-lists of a list, by the index set kept
RECURSIVE SubList(_, _, _)
SubList(sh, keep, m) ==
    IF m = 0 THEN <<>>
    ELSE IF m \in keep THEN Append(SubList(sh, keep, m - 1), sh[m])
    ELSE SubList(sh, keep, m - 1)

Pick(sh, keep) == SubList(sh, keep, Len(sh))

Init ==
    /\ order \in Orders
    /\ op = "init"
    /\ k = 0 /\ n = 0 /\ secret = None
    /\ coeffs = <<>> /\ shares = <<>> /\ shareErr = "none"
    /\ secret2 = None /\ coeffs2 = <<>> /\ shares2 = <<>>
    /\ pool = <<>> /\ scalar = None /\ revealed = None /\ revealErr = "none"

\* shares1 = ss.share(k, n, secret): the first call on a fresh scheme (share
\* reads nothing but the field, so a later call behaves as the first does)
ShareCall ==
    /\ op = "init"
    /\ \E kk \in KInputs, nn \in NInputs, s \in SecretInputs(order) :
       \E rand \in RandomDraws(order, kk) :
         LET res == share(order, kk, nn, s, rand) IN
         /\ op' = "share"
         /\ k' = kk /\ n' = nn /\ secret' = s
         /\ coeffs' = res.coeffs /\ shares' = res.shares /\ shareErr' = res.err
         /\ UNCHANGED <<order, secret2, coeffs2, shares2, pool, scalar,
                        revealed, revealErr>>

RevealRecord(kind, sh, c) ==
    LET res == reveal(order, sh) IN
    /\ op' = kind
    /\ pool' = sh /\ scalar' = c
    /\ revealed' = res.value /\ revealErr' = res.err
    /\ UNCHANGED <<order, k, n, secret, coeffs, shares, shareErr,
                   secret2, coeffs2, shares2>>

\* ss.reveal(pool) with pool a sub-list of the shares returned (reveal reads
\* nothing but its argument and the field, so one call per list is recorded)
RevealShares ==
    /\ op = "share" /\ shareErr = "none" /\ Len(shares) > 0
    /\ \E keep \in (SUBSET (1 .. Len(shares))) \ {{}} :
         RevealRecord("reveal", Pick(shares, keep), None)

\* shares2 = ss.share(k, n, secret): the second call, with the same k and n
ShareCall2 ==
    /\ op = "share" /\ shareErr = "none"
    /\ \E s \in SecretInputs(order) :
       \E rand \in RandomDraws(order, k) :
         LET res == share(order, k, n, s, rand) IN
         /\ op' = "share2"
         /\ secret2' = s /\ coeffs2' = res.coeffs /\ shares2' = res.shares
         /\ shareErr' = res.err
         /\ UNCHANGED <<order, k, n, secret, coeffs, shares, pool, scalar,
                        revealed, revealErr>>

\* pool = [(shares1[i][0], (shares1[i][1] + shares2[i][1]) % order) ...]
SumPool(sh1, sh2, o) ==
    [i \in 1 .. Len(sh1) |-> <<sh1[i][1], (sh1[i][2] + sh2[i][2]) % o>>]

\* pool = [(shares1[i][0], (shares1[i][1] + c) % order) ...]
AddPool(sh, c, o) == [i \in 1 .. Len(sh) |-> <<sh[i][1], (sh[i][2] + c) % o>>]

\* pool = [(shares1[i][0], (shares1[i][1] * m) % order) ...]
MulPool(sh, m, o) == [i \in 1 .. Len(sh) |-> <<sh[i][1], (sh[i][2] * m) % o>>]

\* ss.reveal on the pointwise sums of two share lists
RevealSum ==
    /\ op = "share2" /\ shareErr = "none" /\ Len(shares) > 0
    /\ \E keep \in (SUBSET (1 .. Len(shares))) \ {{}} :
         RevealRecord("revealSum",
                      Pick(SumPool(shares, shares2, order), keep), None)

\* ss.reveal on shares with a constant added to every y
RevealAdd ==
    /\ op = "share" /\ shareErr = "none" /\ Len(shares) > 0
    /\ \E keep \in (SUBSET (1 .. Len(shares))) \ {{}}, c \in Elements(order) :
         RevealRecord("revealAdd", Pick(AddPool(shares, c, order), keep), c)

\* ss.reveal on shares with every y multiplied by a scalar
RevealMul ==
    /\ op = "share" /\ shareErr = "none" /\ Len(shares) > 0
    /\ \E keep \in (SUBSET (1 .. Len(shares))) \ {{}}, m \in Elements(order) :
         RevealRecord("revealMul", Pick(MulPool(shares, m, order), keep), m)

\* the pairs a caller may pass: any point of the field and one integer
\* outside it, and the smallest and largest values
XInputs(o) == 0 .. o
YInputs(o) == {0, 1, o - 1}
Lists(o) ==
    UNION {[1 .. m -> XInputs(o) \X YInputs(o)] : m \in 0 .. MaxLen}

\* ss.reveal on a list the caller built
RevealList ==
    /\ op = "init"
    /\ \E sh \in Lists(order) : RevealRecord("revealList", sh, None)

InitSmall == Init /\ order \in SmallOrders

Next == ShareCall \/ RevealShares

Spec == Init /\ [][Next]_vars

NextSum == ShareCall \/ ShareCall2 \/ RevealSum

SpecSum == InitSmall /\ [][NextSum]_vars

NextAffine == ShareCall \/ RevealAdd \/ RevealMul

SpecAffine == InitSmall /\ [][NextAffine]_vars

NextReveal == ShareCall \/ RevealShares \/ RevealList

SpecReveal == InitSmall /\ [][NextReveal]_vars

(***************************************************************************)
(* Reference definitions the properties compare the code with.             *)
(***************************************************************************)
\* the call share(k, n, secret) met its contract and returned
ValidShare ==
    /\ op # "init" /\ shareErr = "none"
    /\ 1 <= k /\ k <= n /\ n < order
    /\ secret \in Elements(order)

\* the field's power of a field element
RECURSIVE FieldPow(_, _, _)
FieldPow(o, a, e) == IF e = 0 THEN 1 ELSE Mul(o, a, FieldPow(o, a, e - 1))

\* p(x) with field powers and field products of the field element x
RECURSIVE FieldPolySum(_, _, _, _)
FieldPolySum(o, x, cs, index) ==
    IF index = Len(cs) THEN 0
    ELSE Add(o, Mul(o, FieldPow(o, x, index), cs[Len(cs) - index]),
                FieldPolySum(o, x, cs, index + 1))

FieldPoly(o, x, cs) == FieldPolySum(o, x, cs, 0)

\* the k-1 random coefficients of a polynomial of degree k-1
CoefficientChoices(o, kk) == [1 .. (kk - 1) -> Elements(o)]

\* the y-values share issues at the points P for one coefficient choice
ValuesAt(o, kk, s, rand, P) == [x \in P |-> poly(o, x, Coeffs(kk, s, rand))]

\* how many coefficient choices give the y-values t at the points P
Count(o, kk, s, P, t) ==
    Cardinality({rand \in CoefficientChoices(o, kk) :
                    ValuesAt(o, kk, s, rand, P) = t})

\* the shares issued at the points P (ascending) for one coefficient choice
SharesAt(o, kk, nn, s, rand, P) ==
    Pick(ShareList(o, nn, Coeffs(kk, s, rand)), P)

\* product over j # i of (0 - x[j]), computed directly
RECURSIVE DirectNumeratorUpTo(_, _, _, _)
DirectNumeratorUpTo(o, x, i, m) ==
    IF m = 0 THEN 1
    ELSE IF m = i THEN DirectNumeratorUpTo(o, x, i, m - 1)
    ELSE Mul(o, DirectNumeratorUpTo(o, x, i, m - 1), Sub(o, 0, x[m]))

DirectNumerator(o, x, i) == DirectNumeratorUpTo(o, x, i, Len(x))

\* sum over i of y[i] * l_i(0) with the direct numerators
RECURSIVE LagrangeUpTo(_, _, _, _)
LagrangeUpTo(o, x, y, m) ==
    IF m = 0 THEN 0
    ELSE Add(o, LagrangeUpTo(o, x, y, m - 1),
                Mul(o, y[m], Div(o, DirectNumerator(o, x, m),
                                    Denominator(o, x, m))))

\* a non-empty list of field pairs with pairwise-distinct non-zero points
WellFormed(o, sh) ==
    /\ Len(sh) >= 1
    /\ InField(o, sh)
    /\ \A i \in 1 .. Len(sh) : sh[i][1] # 0
    /\ \A i, j \in 1 .. Len(sh) : i # j => sh[i][1] # sh[j][1]

HasDuplicatePoint(sh) ==
    \E i, j \in 1 .. Len(sh) : i # j /\ sh[i][1] = sh[j][1]

RevealOps == {"reveal", "revealSum", "revealAdd", "revealMul", "revealList"}

(***************************************************************************)
(* The properties.                                                         *)
(***************************************************************************)
\* C1: round trip: reveal on any k of the n shares that share(k, n, secret)
\* returned (1 <= k <= n < order) returns the secret.
C1_RoundTrip ==
    (op = "reveal" /\ ValidShare /\ Len(pool) = k)
        => (revealErr = "none" /\ revealed = secret)

\* C2: reveal on any m of the n shares, k <= m <= n, returns the secret,
\* whatever the characteristic and the parity of m.
C2_RevealAtLeastK ==
    (op = "reveal" /\ ValidShare /\ Len(pool) >= k /\ Len(pool) <= n)
        => revealed = secret

\* C3: for k >= 2 and any k-1 of the n points, the y-values share can issue
\* there (counted over all coefficient choices) are the same for every
\* secret; no single y-value is fixed by the secret alone; and reveal on those
\* k-1 shares gives the secret for a 1/order fraction of the choices.
C3_FewerSharesRevealNothing ==
    (op = "share" /\ ValidShare /\ k >= 2)
        => /\ \A P \in SUBSET (1 .. n) :
                Cardinality(P) = k - 1
                  => /\ \A s2 \in Elements(order) :
                          \A t \in [P -> Elements(order)] :
                             Count(order, k, secret, P, t)
                               = Count(order, k, s2, P, t)
                     /\ order * Cardinality(
                            {rand \in CoefficientChoices(order, k) :
                               reveal(order, SharesAt(order, k, n, secret,
                                                      rand, P)).value
                                 = secret})
                          = Cardinality(CoefficientChoices(order, k))
           /\ \A x \in 1 .. n :
                \E r1, r2 \in CoefficientChoices(order, k) :
                   poly(order, x, Coeffs(k, secret, r1))
                     # poly(order, x, Coeffs(k, secret, r2))

\* C6: share returns exactly the n pairs (i, p(i)), i = 1..n ascending, with
\* p(i) the field value of the polynomial at the field element i, in [0, order).
C6_ShareOutput ==
    (op = "share" /\ ValidShare)
        => /\ Len(shares) = n
           /\ \A i \in 1 .. n :
                /\ shares[i] = <<i, FieldPoly(order, i, coeffs)>>
                /\ shares[i][2] \in Elements(order)

\* C10: the numerator reveal uses for basis i (product / x_i) equals the
\* direct product over j # i of (0 - x_j), and reveal returns
\* the sum of y_i * l_i(0).
C10_NumeratorShortcut ==
    (op \in RevealOps /\ WellFormed(order, pool))
        => /\ \A i \in 1 .. Len(pool) :
                Numerator(order, Xs(pool), i)
                  = DirectNumerator(order, Xs(pool), i)
           /\ revealed = LagrangeUpTo(order, Xs(pool), Ys(pool), Len(pool))

\* C4: reveal on k pairs (x_i, (y1_i + y2_i) mod order) of two share lists
\* for s1 and s2 returns (s1 + s2) mod order.
C4_HomomorphicAdditivity ==
    (op = "revealSum" /\ ValidShare /\ secret2 \in Elements(order)
                      /\ Len(pool) = k)
        => revealed = (secret + secret2) % order

\* C5: reveal on k shares with every y replaced by (y + c) mod order returns
\* (secret + c) mod order, and with (y * m) mod order returns
\* (secret * m) mod order.
C5_ScalarAffine ==
    /\ (op = "revealAdd" /\ ValidShare /\ Len(pool) = k)
          => revealed = (secret + scalar) % order
    /\ (op = "revealMul" /\ ValidShare /\ Len(pool) = k)
          => revealed = (secret * scalar) % order

\* C7 as stated: share fails and returns no list whenever k < 1 or n < k or
\* the secret is outside [0, order) (read without regard to the error's kind).
C7_FailsOnBadParameters ==
    (op = "share" /\ (k < 1 \/ n < k \/ secret \notin Elements(order)))
        => (shareErr # "none" /\ shares = <<>>)

\* C7 as amended: share raises (ValueError, or IndexError for k = 0) and
\* returns no list whenever k < 1 or the secret is outside [0, order);
\* otherwise it returns n shares, also when n < k.
C7_ShareParameterHandling ==
    op = "share"
        => /\ (k < 1 \/ secret \notin Elements(order))
                => (shareErr \in {"ValueError", "IndexError"} /\ shares = <<>>)
           /\ (k >= 1 /\ secret \in Elements(order))
                => (shareErr = "none" /\ Len(shares) = n)

C7_Witness ==
    /\ op = "share" /\ k >= 1 /\ 1 <= n /\ n < k
    /\ secret \in Elements(order)
    /\ shareErr = "none" /\ Len(shares) = n

\* C8 as stated: reveal fails with DuplicatePoint when two shares have the
\* same x and with EmptyInput when the list is empty.
C8_DuplicatePointAndEmptyInput ==
    op = "revealList"
        => /\ HasDuplicatePoint(pool) => revealErr = "DuplicatePoint"
           /\ pool = <<>> => revealErr = "EmptyInput"

\* C8 as amended: reveal returns no value when two shares have the same x
\* (the field division raises ZeroDivisionError, ValueError if an entry is
\* outside the field) or the list is empty (ValueError).
C8_MalformedInputFails ==
    op = "revealList"
        => /\ HasDuplicatePoint(pool)
                => /\ revealErr = IF InField(order, pool)
                                  THEN "ZeroDivisionError" ELSE "ValueError"
                   /\ revealed = None
           /\ pool = <<>> => (revealErr = "ValueError" /\ revealed = None)

C8_Witness ==
    /\ op = "revealList" /\ Len(pool) = MaxLen
    /\ InField(order, pool)
    /\ \A i \in 1 .. Len(pool) : pool[i][1] # 0
    /\ pool[1][1] = pool[Len(pool)][1] /\ pool[1][2] # pool[Len(pool)][2]
    /\ revealErr = "ZeroDivisionError" /\ revealed = None

\* C9: for every non-empty list of field pairs with pairwise-distinct
\* non-zero points, reveal divides by no zero and returns an element of
\* [0, order), also for fewer shares than the threshold.
C9_InsufficientSharesNoError ==
    (op \in RevealOps /\ WellFormed(order, pool))
        => /\ \A i \in 1 .. Len(pool) : ~DivisionFails(order, Xs(pool), i)
           /\ revealErr = "none"
           /\ revealed \in Elements(order)

C9_Witness ==
    /\ op = "reveal" /\ ValidShare
    /\ Len(pool) >= 1 /\ Len(pool) < k
    /\ revealErr = "none" /\ revealed \in Elements(order)
    /\ revealed # secret

====
